---- MODULE Spec2Model ----
(***************************************************************************)
(* A model of the B2 Cloud Storage backend of Upspin                       *)
(* (cloud/storage/b2cs/b2cs.go): the paginated List with its cache of      *)
(* cursors, and Put / Download / Delete against the versioned bucket.      *)
(*                                                                         *)
(* Spec      : List calls by one caller of one b2csImpl over a bucket      *)
(*             whose content does not change.                              *)
(* ConcSpec  : the same with the List calls of two callers interleaved.    *)
(* WalkSpec  : two callers that each follow their walk to its end.         *)
(* StoreSpec : Put, Download and Delete against the bucket.                *)
(* LifeSpec  : New, LinkBase, Close and the calls after Close, one caller. *)
(* LifeConcSpec : the same with the LinkBase calls of two callers.         *)
(***************************************************************************)
EXTENDS Integers, Sequences, FiniteSets, TLC

(* ------------------------------ bounds --------------------------------- *)

\* The largest number of objects in the bucket that List walks over.
MaxN == 3

\* The largest value given to maxResults (1000 in production, 3 in the tests).
MaxPage == 2

\* The capacity of the cursor cache. New passes 100 to cache.NewLRU; the model
\* runs the same cache at a small capacity so that evictions are reached.
maxEntries == 2

\* The number of tokens randomToken hands out in one behaviour.
MaxTokens == 3

\* The number of requests to the remote service that fail in one behaviour.
MaxFaults == 1

\* The most versions one object name holds in StoreSpec.
MaxVersions == 2

\* The goroutines that call into the one b2csImpl.
Callers == {"a", "b"}

\* The object names Put, Download and Delete are called with in StoreSpec.
PutRefs == {1, 2}

\* The byte contents Put is called with (the empty content included).
Contents == {<< >>, <<7>>}

\* The content of every object of the bucket List walks over.
objectContents == <<7, 7>>

(* ------------------------------ state ---------------------------------- *)

VARIABLES
    store,       \* the bucket: object name -> its versions, newest first
    maxResults,  \* the package variable maxResults
    cursors,     \* b2.cursors: the LRU, most recently used entry first
    iters,       \* the live *b2api.ObjectIterator values, by address
    nextTok,     \* the next token randomToken returns
    pc,          \* per caller: where its List call stands
    token,       \* per caller: the token argument of its current or last call
    iter,        \* per caller: the iterator its call holds (0: none)
    refs,        \* per caller: the refs its call has collected
    result,      \* per caller: what its last List call returned
    walk,        \* per caller: the walk it is on (history)
    resolved,    \* per token: how many getIter calls it gave a cursor to (history)
    used,        \* the tokens a List call that has returned was made with (history)
    faults,      \* the number of requests to the remote service that have failed
    prev,        \* StoreSpec: the operation before the last one
    last,        \* StoreSpec: the last operation and its result
    opts,        \* the options New was called with
    made,        \* what New returned and the requests it made (history)
    b2,          \* the b2csImpl: its bucket, access and ctx fields
    bucketType,  \* the type the service reports for the bucket
    link,        \* per caller: where its LinkBase call stands, what it returned
    lookups,     \* the bucket.Attrs lookups of checkAccess (history)
    closedCall   \* the last call made after Close and how it ended

listVars  == <<maxResults, cursors, iters, nextTok, pc, token, iter, refs,
               result, walk, resolved, used>>
storeVars == <<prev, last>>
lifeVars  == <<opts, made, b2, bucketType, link, lookups, closedCall>>
vars      == <<store, faults, listVars, storeVars, lifeVars>>

\* The empty token "".
NoToken == 0

\* A token randomToken never returned.
Forged == MaxTokens + 1

Names == 1 .. MaxN

(* ------------------------------ errors --------------------------------- *)

\* errors.E(op, kind, ...): the kind and what the message says.
E(kind, msg) == [Kind |-> kind, Msg |-> msg]

nil == E("nil", "")

(* --------------------------- the bucket -------------------------------- *)

\* The names bucket.List yields: those with a version, in name order.
Catalog(st) == {n \in DOMAIN st : st[n] # << >>}

\* The number of objects of the bucket.
N(st) == Cardinality(Catalog(st))

\* The k-th name of the listing.
RECURSIVE NthName(_, _)
NthName(S, k) ==
    LET m == CHOOSE x \in S : \A y \in S : x <= y
    IN  IF k = 1 THEN m ELSE NthName(S \ {m}, k - 1)

\* The item List appends for the k-th object: its name and attrs.Size.
ListRefsItem(st, k) ==
    LET n == NthName(Catalog(st), k)
    IN  [Ref |-> n, Size |-> Len(Head(st[n]))]

(* ------------------------ b2api.ObjectIterator -------------------------- *)

\* bucket.List(ctx, ListPageSize(maxResults)): nothing fetched yet.
NewIterator == [pos |-> 0, err |-> "nil"]

\* Whether Next at this position asks the service for a page.
Fetches(it, st, pagesize) ==
    it.pos % pagesize = 0 /\ (it.pos < N(st) \/ it.pos = 0)

\* iter.Next(): <<whether there is an object, the iterator afterwards>>.
\* fail: the page request it makes, if it makes one, fails.
iterNext(it, st, pagesize, fail) ==
    IF it.err # "nil" THEN <<FALSE, it>>
    ELSE IF fail /\ Fetches(it, st, pagesize)
         THEN <<FALSE, [it EXCEPT !.err = "fail"]>>
    ELSE IF it.pos < N(st) THEN <<TRUE, [it EXCEPT !.pos = it.pos + 1]>>
    ELSE <<FALSE, [it EXCEPT !.err = "EOF"]>>

\* iter.Err(): the end of the listing is no error.
iterErr(it) ==
    IF it.err = "fail" THEN E("IO", "list") ELSE nil

(* ----------------------------- cache.LRU -------------------------------- *)

Keys(c) == {c[k].key : k \in DOMAIN c}

IndexOf(c, key) == CHOOSE k \in DOMAIN c : c[k].key = key

Without(c, key) == SelectSeq(c, LAMBDA e : e.key # key)

\* LRU.Get: <<value, ok, the cache afterwards>>; a hit moves the entry to the front.
lruGet(c, key) ==
    IF key \in Keys(c)
    THEN <<c[IndexOf(c, key)].value, TRUE, <<c[IndexOf(c, key)]>> \o Without(c, key)>>
    ELSE <<0, FALSE, c>>

\* LRU.Remove.
lruRemove(c, key) == Without(c, key)

\* LRU.Add: the entry goes to the front; beyond the capacity the entry at
\* the back, the least recently used one, is dropped.
lruAdd(c, key, value, capacity) ==
    LET d == <<[key |-> key, value |-> value]>> \o Without(c, key)
    IN  IF key \notin Keys(c) /\ Len(d) > capacity
        THEN SubSeq(d, 1, Len(d) - 1)
        ELSE d

\* A cache that holds one entry less than it was made for.
cursorsAddOneShort(c, key, value) == lruAdd(c, key, value, maxEntries - 1)

\* A cache that is never trimmed: what Add would be on a plain map.
cursorsAddUnbounded(c, key, value) ==
    <<[key |-> key, value |-> value]>> \o Without(c, key)

\* b2.cursors.Add on the cache New made with cache.NewLRU(maxEntries).
cursorsAdd(c, key, value) == lruAdd(c, key, value, maxEntries)

(* ------------------------------- List ----------------------------------- *)

InFlight == {c \in Callers : pc[c] # "idle"}

\* The iterators something still points to: the garbage collector keeps these.
Collect(its, cache, held) ==
    LET keep == {cache[k].value : k \in DOMAIN cache} \cup held
    IN  [id \in DOMAIN its \cap keep |-> its[id]]

\* The address of a newly allocated iterator.
NewAddress == CHOOSE id \in 1 .. (Cardinality(DOMAIN iters) + 1) : id \notin DOMAIN iters

\* What a caller holds while its call has not returned.
NoResult == [refs |-> << >>, nextToken |-> NoToken, err |-> nil]

attrsFailed == E("IO", "unable to get object attributes")

\* The walk of a caller that calls List(tk): List("") starts one, the token
\* the last call returned continues it, any other token leaves it. A caller
\* whose walk broke at obj.Attrs and who calls again with the token of the
\* broken call, the last one returned to it, is on a retry.
WalkAtCall(c, tk) ==
    IF tk = NoToken THEN [st |-> "open", refs |-> << >>, calls |-> 0]
    ELSE IF walk[c].st = "open" /\ tk = result[c].nextToken THEN walk[c]
    ELSE IF walk[c].st = "broken" /\ result[c].err = attrsFailed /\ tk = token[c]
         THEN [st |-> "retry", refs |-> << >>, calls |-> 0]
    ELSE [st |-> "none", refs |-> << >>, calls |-> 0]

\* The walk of a caller (as getAllRefs keeps it) once its call has returned.
WalkAtReturn(w, rs, nt, err) ==
    IF w.st # "open" THEN w
    ELSE IF err # nil THEN [w EXCEPT !.st = "broken", !.calls = w.calls + 1]
    ELSE [st    |-> IF nt = NoToken THEN "done" ELSE "open",
          refs  |-> w.refs \o rs,
          calls |-> w.calls + 1]

\* return rs, nt, err from the List(tk) call of caller c that holds iterator id.
Return(c, tk, w, rs, nt, err, cache, its) ==
    /\ result' = [result EXCEPT ![c] = [refs |-> rs, nextToken |-> nt, err |-> err]]
    /\ walk' = [walk EXCEPT ![c] = WalkAtReturn(w, rs, nt, err)]
    /\ used' = IF tk = NoToken THEN used ELSE used \cup {tk}
    /\ pc' = [pc EXCEPT ![c] = "idle"]
    /\ iter' = [iter EXCEPT ![c] = 0]
    /\ refs' = [refs EXCEPT ![c] = << >>]
    /\ iters' = Collect(its, cache, {iter[d] : d \in InFlight \ {c}})

\* A call that has collected k items on iterator it can still fill its page,
\* and only a call that fills its page asks randomToken for a token.
MayFillPage(k, it) == k + (N(store) - it.pos) >= maxResults

\* randomToken never returns a token twice (16 bytes from crypto/rand). A
\* call that may come to need a token is started only while there is one
\* left for it and for each call in progress that may need one.
TokenLeft(it) ==
    LET need == {c \in InFlight : MayFillPage(Len(refs[c]), iters[iter[c]])}
    IN  MayFillPage(0, it) => (nextTok - 1) + Cardinality(need) + 1 <= MaxTokens

\* List(""): getIter starts an iteration from the beginning of the bucket.
ListFresh(c) ==
    /\ pc[c] = "idle" /\ TokenLeft(NewIterator)
    /\ token' = [token EXCEPT ![c] = NoToken]
    /\ result' = [result EXCEPT ![c] = NoResult]
    /\ walk' = [walk EXCEPT ![c] = WalkAtCall(c, NoToken)]
    /\ iters' = [id \in DOMAIN iters \cup {NewAddress} |->
                    IF id = NewAddress THEN NewIterator ELSE iters[id]]
    /\ iter' = [iter EXCEPT ![c] = NewAddress]
    /\ refs' = [refs EXCEPT ![c] = << >>]
    /\ pc' = [pc EXCEPT ![c] = "loop"]
    /\ UNCHANGED <<store, faults, storeVars, lifeVars, maxResults, cursors, nextTok,
                   resolved, used>>

\* The error getIter returns for a token the cache does not hold.
unknownToken == E("IO", "unknown token")

\* List(tk), tk # "": getIter looks the token up with b2.cursors.Get.
\* A miss returns the error; a hit goes on to b2.cursors.Remove.
ListLookup(c, tk) ==
    /\ pc[c] = "idle"
    /\ tk # NoToken
    /\ tk \in Keys(cursors) => TokenLeft(iters[lruGet(cursors, tk)[1]])
    /\ token' = [token EXCEPT ![c] = tk]
    /\ LET got == lruGet(cursors, tk)
           w   == WalkAtCall(c, tk)
       IN  IF got[2]
           THEN /\ cursors' = got[3]
                /\ iter' = [iter EXCEPT ![c] = got[1]]
                /\ resolved' = [resolved EXCEPT ![tk] = resolved[tk] + 1]
                /\ walk' = [walk EXCEPT ![c] = w]
                /\ refs' = [refs EXCEPT ![c] = << >>]
                /\ pc' = [pc EXCEPT ![c] = "remove"]
                /\ result' = [result EXCEPT ![c] = NoResult]
                /\ UNCHANGED <<used, iters>>
           ELSE /\ Return(c, tk, w, << >>, NoToken, unknownToken, cursors, iters)
                /\ UNCHANGED <<cursors, resolved>>
    /\ UNCHANGED <<store, faults, storeVars, lifeVars, maxResults, nextTok>>

\* getIter that returns the iterator and leaves the token in the cache.
getIterKeep(c) ==
    /\ pc[c] = "remove"
    /\ pc' = [pc EXCEPT ![c] = "loop"]
    /\ UNCHANGED <<store, faults, storeVars, lifeVars, maxResults, cursors, iters, nextTok,
                   token, iter, refs, result, walk, resolved, used>>

\* getIter after a hit: b2.cursors.Remove(token), and the iterator is returned.
getIterRemove(c) ==
    /\ pc[c] = "remove"
    /\ cursors' = lruRemove(cursors, token[c])
    /\ pc' = [pc EXCEPT ![c] = "loop"]
    /\ UNCHANGED <<store, faults, storeVars, lifeVars, maxResults, iters, nextTok, token,
                   iter, refs, result, walk, resolved, used>>

\* The failures the remote service may answer a request with.
Failures == IF faults < MaxFaults THEN BOOLEAN ELSE {FALSE}

\* The loop condition with its operands swapped, iter.Next() && i < maxResults:
\* Next is called, and an object consumed, also when the page is full.
loopCondNextFirst(i, it, st, max, fail) ==
    LET nx == iterNext(it, st, max, fail)
    IN  <<nx[1] /\ i < max, nx[2]>>

\* The condition of the loop, i < maxResults && iter.Next(): Next is not
\* called once the page is full. <<condition, the iterator afterwards>>.
loopCond(i, it, st, max, fail) ==
    IF i < max THEN iterNext(it, st, max, fail) ELSE <<FALSE, it>>

\* One evaluation of the loop condition and, when it holds, the loop body
\* with obj.Attrs succeeding: the object's name and size are appended.
ListLoop(c) ==
    /\ pc[c] = "loop"
    /\ \E fail \in Failures :
         LET nx == loopCond(Len(refs[c]), iters[iter[c]], store, maxResults, fail)
         IN  /\ iters' = [iters EXCEPT ![iter[c]] = nx[2]]
             /\ faults' = IF nx[2].err = "fail" /\ iters[iter[c]].err # "fail"
                           THEN faults + 1 ELSE faults
             /\ IF nx[1]
                THEN /\ refs' = [refs EXCEPT ![c] =
                                   Append(@, ListRefsItem(store, nx[2].pos))]
                     /\ pc' = pc
                ELSE /\ refs' = refs
                     /\ pc' = [pc EXCEPT ![c] = "finish"]
    /\ UNCHANGED <<store, storeVars, lifeVars, maxResults, cursors, nextTok, token,
                   iter, result, walk, resolved, used>>

\* An obj.Attrs failure that puts the cursor back under the token of the call.
ListAttrsFailKeepsCursor(c) ==
    /\ pc[c] = "loop" /\ faults < MaxFaults
    /\ faults' = faults + 1
    /\ LET nx == loopCond(Len(refs[c]), iters[iter[c]], store, maxResults, FALSE)
       IN  /\ nx[1]
           /\ cursors' = IF token[c] = NoToken THEN cursors
                         ELSE cursorsAdd(cursors, token[c], iter[c])
           /\ Return(c, token[c], walk[c], refs[c], NoToken, attrsFailed, cursors',
                     [iters EXCEPT ![iter[c]] = nx[2]])
    /\ UNCHANGED <<store, storeVars, lifeVars, maxResults, nextTok, token, resolved>>

\* The loop body when obj.Attrs fails: the refs collected so far are
\* returned with an empty token and an IO error.
ListAttrsFail(c) ==
    /\ pc[c] = "loop" /\ faults < MaxFaults
    /\ faults' = faults + 1
    /\ LET nx == loopCond(Len(refs[c]), iters[iter[c]], store, maxResults, FALSE)
       IN  /\ nx[1]
           /\ Return(c, token[c], walk[c], refs[c], NoToken, attrsFailed, cursors,
                     [iters EXCEPT ![iter[c]] = nx[2]])
    /\ UNCHANGED <<store, storeVars, lifeVars, maxResults, cursors, nextTok, token,
                   resolved>>

\* The test with <= for <: a full page ends the listing as well.
listingEndsAtFullPage(rs, it, max) == iterErr(it) # nil \/ Len(rs) <= max

\* The test without its second half: a short page does not end the listing.
listingEndsOnError(rs, it, max) == iterErr(it) # nil

\* The test after the loop: iter.Err() != nil || len(refs) < maxResults
\* ends the listing; otherwise the cursor is kept for the next call.
listingEnds(rs, it, max) == iterErr(it) # nil \/ Len(rs) < max

\* After the loop: either the listing ends (empty token, iter.Err()), or a
\* new token is made and the iterator is added to the cache under it.
ListFinish(c) ==
    /\ pc[c] = "finish"
    /\ IF listingEnds(refs[c], iters[iter[c]], maxResults)
       THEN /\ Return(c, token[c], walk[c], refs[c], NoToken,
                      iterErr(iters[iter[c]]), cursors, iters)
            /\ UNCHANGED <<cursors, nextTok>>
       ELSE /\ cursors' = cursorsAdd(cursors, nextTok, iter[c])
            /\ nextTok' = nextTok + 1
            /\ Return(c, token[c], walk[c], refs[c], nextTok, nil, cursors', iters)
    /\ UNCHANGED <<store, faults, storeVars, lifeVars, maxResults, token, resolved>>

(* ----------------------- Put, Download, Delete -------------------------- *)

\* What one operation was and returned. versions: the versions the name
\* held before it; fault: whether the request to the service failed.
Op(op, r, data, fault, err) ==
    [op |-> op, ref |-> r, data |-> data, fault |-> fault, err |-> err,
     versions |-> Len(store[r])]

\* The version of an object that is read: the oldest one.
oldest(versions) == versions[Len(versions)]

\* The version of an object that bucket.Object(ref).NewReader reads: the newest one.
newest(versions) == Head(versions)

\* Delete that removes every version of the object.
deleteAllVersions(versions) == << >>

\* What Object.Delete leaves of an object: it removes the newest version
\* only, an older version of the same name becomes the current one.
afterDelete(versions) == Tail(versions)

\* Put(ref, contents): the contents are uploaded as a new version of ref.
\* When the upload fails the error is IO, and the service may or may not
\* have stored the version.
Put(r, b, fault, stored) ==
    /\ Len(store[r]) < MaxVersions
    /\ fault \/ stored
    /\ store' = IF stored THEN [store EXCEPT ![r] = <<b>> \o @] ELSE store
    /\ prev' = last
    /\ last' = Op("Put", r, b, fault,
                  IF fault THEN E("IO", "unable to upload ref") ELSE nil)
    /\ UNCHANGED <<faults, listVars, lifeVars>>

\* Download(ref): NotExist when the bucket has no object of that name, IO
\* when the download fails, the bytes of the object otherwise.
Download(r, fault) ==
    /\ prev' = last
    /\ last' = IF store[r] = << >> /\ ~fault
               THEN Op("Download", r, << >>, fault, E("NotExist", "not exist"))
               ELSE IF fault
               THEN Op("Download", r, << >>, fault, E("IO", "unable to download ref"))
               ELSE Op("Download", r, newest(store[r]), fault, nil)
    /\ UNCHANGED <<store, faults, listVars, lifeVars>>

\* Delete(ref): NotExist when the bucket has no object of that name, IO when
\* the request fails (the service may or may not have deleted), nil otherwise.
Delete(r, fault, deleted) ==
    /\ fault \/ deleted
    /\ deleted => ~fault \/ store[r] # << >>
    /\ store' = IF deleted /\ store[r] # << >>
                THEN [store EXCEPT ![r] = afterDelete(@)] ELSE store
    /\ prev' = last
    /\ last' = IF store[r] = << >> /\ ~fault
               THEN Op("Delete", r, << >>, fault, E("NotExist", "not exist"))
               ELSE IF fault
               THEN Op("Delete", r, << >>, fault, E("IO", "unable to delete ref"))
               ELSE Op("Delete", r, << >>, fault, nil)
    /\ UNCHANGED <<faults, listVars, lifeVars>>

(* ----------------------- New, LinkBase, Close --------------------------- *)

accountID  == "b2csAccount"
appKey     == "b2csAppKey"
bucketName == "b2csBucketName"

Options == {accountID, appKey, bucketName}

\* b2api.BucketType: what bucket.Attrs reports.
Public      == "allPublic"
Private     == "allPrivate"
BucketTypes == {Public, Private, "snapshot"}

\* A New that trusts the bucket name to be there.
missingOptionOfTwo(o) ==
    IF accountID \notin o THEN accountID
    ELSE IF appKey \notin o THEN appKey
    ELSE ""

\* The first required option New does not find in opts.Opts, "" if none.
missingOption(o) ==
    IF accountID \notin o THEN accountID
    ELSE IF appKey \notin o THEN appKey
    ELSE IF bucketName \notin o THEN bucketName
    ELSE ""

NotMade    == [called |-> FALSE, err |-> nil, requests |-> 0]
NoInstance == [bucket |-> "nil", access |-> "", ctx |-> "none"]

\* The b2csImpl New returns: access is the zero value.
NewInstance == [bucket |-> "bucket", access |-> "", ctx |-> "live"]

\* New(opts). session: b2api.NewClient succeeds; found: what client.Bucket
\* answers; created: client.NewBucket succeeds.
New(o, session, found, created) ==
    /\ ~made.called
    /\ opts' = o
    /\ LET missing  == missingOption(o)
           requests == IF missing # "" THEN 0
                       ELSE IF ~session THEN 1
                       ELSE IF found = "notExist" THEN 3
                       ELSE 2
           err      == IF missing # "" THEN E("Invalid", missing)
                       ELSE IF ~session THEN E("IO", "unable to create B2 session")
                       ELSE IF found = "error" \/ (found = "notExist" /\ ~created)
                            THEN E("IO", "unable to obtain B2 bucket reference")
                       ELSE nil
       IN  /\ made' = [called |-> TRUE, err |-> err, requests |-> requests]
           /\ b2' = IF err = nil THEN NewInstance ELSE NoInstance
    /\ UNCHANGED <<store, faults, listVars, storeVars, bucketType, link, lookups,
                   closedCall>>

\* New returned an instance.
Made == made.called /\ made.err = nil

\* calls: the LinkBase calls of the caller that have returned, counted to 2.
NoLink == [pc |-> "idle", base |-> "", err |-> nil, calls |-> 0]

Counted(n) == IF n < 2 THEN n + 1 ELSE n

ErrNotSupported == E("NotSupported", "not supported")

\* LinkBase, up to its first test: a closed instance is refused.
LinkBase(c) ==
    /\ Made
    /\ link[c].pc = "idle"
    /\ link' = [link EXCEPT ![c] =
            IF b2.bucket = "nil"
            THEN [pc |-> "idle", base |-> "",
                  err |-> E("Transient", "B2 implementation is not initialized"),
                  calls |-> Counted(link[c].calls)]
            ELSE [pc |-> "access", base |-> "", err |-> nil, calls |-> link[c].calls]]
    /\ closedCall' = IF b2.bucket = "nil"
                     THEN [op |-> "LinkBase", outcome |-> "error"]
                     ELSE closedCall
    /\ UNCHANGED <<store, faults, listVars, storeVars, opts, made, b2, bucketType,
                   lookups>>

\* if b2.access == "" { b2.checkAccess() }
LinkBaseAccess(c) ==
    /\ link[c].pc = "access"
    /\ link' = [link EXCEPT ![c].pc = IF b2.access = "" THEN "checkAccess" ELSE "return"]
    /\ UNCHANGED <<store, faults, listVars, storeVars, opts, made, b2, bucketType,
                   lookups, closedCall>>

\* A checkAccess that sets no fallback before it asks.
noFallback == ""

\* The value checkAccess sets before it asks the service.
fallback == Private

\* checkAccess, up to the request to the service.
checkAccess(c) ==
    /\ link[c].pc = "checkAccess"
    /\ IF b2.bucket = "nil"
       THEN /\ link' = [link EXCEPT ![c].pc = "return"]
            /\ b2' = b2
       ELSE /\ link' = [link EXCEPT ![c].pc = "attrs"]
            /\ b2' = [b2 EXCEPT !.access = fallback]
    /\ UNCHANGED <<store, faults, listVars, storeVars, opts, made, bucketType,
                   lookups, closedCall>>

\* b2.bucket.Attrs and what follows it. ok: the request succeeds.
checkAccessAttrs(c, ok) ==
    /\ link[c].pc = "attrs"
    /\ lookups' = [n      |-> Counted(lookups.n),
                   first  |-> IF lookups.n > 0 THEN lookups.first
                              ELSE IF ok THEN bucketType ELSE "failed",
                   failed |-> lookups.failed \/ ~ok]
    /\ b2' = IF ok THEN [b2 EXCEPT !.access = bucketType] ELSE b2
    /\ link' = [link EXCEPT ![c].pc = "return"]
    /\ UNCHANGED <<store, faults, listVars, storeVars, opts, made, bucketType,
                   closedCall>>

\* The end of LinkBase: the URL of a public bucket, ErrNotSupported otherwise.
LinkBaseReturn(c) ==
    /\ link[c].pc = "return"
    /\ link' = [link EXCEPT ![c] =
            IF b2.access = Public
            THEN [pc |-> "idle", base |-> "url", err |-> nil,
                  calls |-> Counted(link[c].calls)]
            ELSE [pc |-> "idle", base |-> "", err |-> ErrNotSupported,
                  calls |-> Counted(link[c].calls)]]
    /\ UNCHANGED <<store, faults, listVars, storeVars, opts, made, b2, bucketType,
                   lookups, closedCall>>

\* Close, called while no LinkBase call is in progress.
Close ==
    /\ Made
    /\ \A c \in Callers : link[c].pc = "idle"
    /\ b2' = [b2 EXCEPT !.bucket = "nil", !.ctx = "cancelled"]
    /\ UNCHANGED <<store, faults, listVars, storeVars, opts, made, bucketType, link,
                   lookups, closedCall>>

NoCall == [op |-> "none", outcome |-> "none"]

\* The calls that use b2.bucket without looking at it first.
Unguarded == {"Put", "Download", "Delete", "List"}

\* Put, Download, Delete or List("") on a closed instance: b2.bucket is a
\* nil *b2api.Bucket and the call goes through it, a nil pointer dereference.
CallAfterClose(op) ==
    /\ Made
    /\ b2.bucket = "nil"
    /\ closedCall' = [op |-> op, outcome |-> "panic"]
    /\ UNCHANGED <<store, faults, listVars, storeVars, opts, made, b2, bucketType,
                   link, lookups>>

\* The instance of the other specifications: New has returned it for a
\* private bucket and nothing was asked of it yet.
Opened ==
    /\ opts = Options
    /\ made = [called |-> TRUE, err |-> nil, requests |-> 2]
    /\ b2 = NewInstance
    /\ bucketType = Private
    /\ link = [c \in Callers |-> NoLink]
    /\ lookups = [n |-> 0, first |-> "none", failed |-> FALSE]
    /\ closedCall = NoCall

(* --------------------------- specification ------------------------------ *)

\* The bucket with the first n names holding one object each.
Bucket(n) == [r \in Names |-> IF r <= n THEN <<objectContents>> ELSE << >>]

NoOp == [op |-> "none", ref |-> 0, data |-> << >>, fault |-> FALSE,
         err |-> nil, versions |-> 0]

\* After New: an empty cursor cache, no call in progress.
Init ==
    /\ \E n \in 0 .. MaxN : store = Bucket(n)
    /\ maxResults \in 1 .. MaxPage
    /\ faults = 0
    /\ cursors = << >>
    /\ iters = << >>
    /\ nextTok = 1
    /\ pc = [c \in Callers |-> "idle"]
    /\ token = [c \in Callers |-> NoToken]
    /\ iter = [c \in Callers |-> 0]
    /\ refs = [c \in Callers |-> << >>]
    /\ result = [c \in Callers |-> NoResult]
    /\ walk = [c \in Callers |-> [st |-> "none", refs |-> << >>, calls |-> 0]]
    /\ resolved = [t \in 1 .. Forged |-> 0]
    /\ used = {}
    /\ prev = NoOp
    /\ last = NoOp
    /\ Opened

\* The steps of the List calls of the callers in S.
ListNext(S) ==
    \/ \E c \in S : ListFresh(c)
    \/ \E c \in S : \E tk \in (1 .. (nextTok - 1)) \cup {Forged} : ListLookup(c, tk)
    \/ \E c \in S : getIterRemove(c)
    \/ \E c \in S : ListLoop(c)
    \/ \E c \in S : ListAttrsFail(c)
    \/ \E c \in S : ListFinish(c)

\* One caller: its List calls follow one another.
Next == ListNext({"a"})

Spec == Init /\ [][Next]_vars

\* Several callers: their List calls run concurrently.
ConcNext == ListNext(Callers)

ConcSpec == Init /\ [][ConcNext]_vars

\* The tokens the walk of caller c has yet to be given: one for each full
\* page it has not collected.
TokensToCome(c) ==
    IF walk[c].st = "open"
    THEN (N(store) - Len(walk[c].refs)) \div maxResults
    ELSE 0

RECURSIVE TokensOfWalks(_)
TokensOfWalks(S) ==
    IF S = {} THEN 0
    ELSE LET c == CHOOSE x \in S : TRUE
         IN  TokensToCome(c) + TokensOfWalks(S \ {c})

\* getAllRefs: a caller with no walk in progress starts one with List("").
\* A walk is started only while randomToken has tokens left for all its
\* pages and for those of the walks in progress.
WalkStart(c) ==
    /\ walk[c].st # "open"
    /\ (nextTok - 1) + TokensOfWalks(Callers) + (N(store) \div maxResults) <= MaxTokens
    /\ ListFresh(c)

\* getAllRefs: the caller goes on with the token its last call returned.
WalkResume(c) ==
    /\ walk[c].st = "open"
    /\ ListLookup(c, result[c].nextToken)

\* The steps of caller c that do not depend on a failure of the service.
WalkStep(c) == WalkResume(c) \/ getIterRemove(c) \/ ListLoop(c) \/ ListFinish(c)

\* Callers that each hold one walk at a time and follow it to its end.
WalkNext ==
    \/ \E c \in Callers : WalkStart(c)
    \/ \E c \in Callers : WalkResume(c)
    \/ \E c \in Callers : getIterRemove(c)
    \/ \E c \in Callers : ListLoop(c)
    \/ \E c \in Callers : ListAttrsFail(c)
    \/ \E c \in Callers : ListFinish(c)

\* No caller stops in the middle of a call or gives up its walk, and every
\* request to the service returns.
WalkSpec == Init /\ [][WalkNext]_vars /\ \A c \in Callers : WF_vars(WalkStep(c))

\* After New on an empty bucket: nothing stored, nothing done yet.
StoreInit ==
    /\ store = Bucket(0)
    /\ maxResults = MaxPage
    /\ faults = 0
    /\ cursors = << >>
    /\ iters = << >>
    /\ nextTok = 1
    /\ pc = [c \in Callers |-> "idle"]
    /\ token = [c \in Callers |-> NoToken]
    /\ iter = [c \in Callers |-> 0]
    /\ refs = [c \in Callers |-> << >>]
    /\ result = [c \in Callers |-> NoResult]
    /\ walk = [c \in Callers |-> [st |-> "none", refs |-> << >>, calls |-> 0]]
    /\ resolved = [t \in 1 .. Forged |-> 0]
    /\ used = {}
    /\ prev = NoOp
    /\ last = NoOp
    /\ Opened

StoreNext ==
    \/ \E r \in PutRefs, b \in Contents, fault, stored \in BOOLEAN : Put(r, b, fault, stored)
    \/ \E r \in PutRefs, fault \in BOOLEAN : Download(r, fault)
    \/ \E r \in PutRefs, fault, deleted \in BOOLEAN : Delete(r, fault, deleted)

StoreSpec == StoreInit /\ [][StoreNext]_vars

\* Before New: the bucket is of some type; no instance, no call yet.
LifeInit ==
    /\ store = Bucket(0)
    /\ maxResults = MaxPage
    /\ faults = 0
    /\ cursors = << >>
    /\ iters = << >>
    /\ nextTok = 1
    /\ pc = [c \in Callers |-> "idle"]
    /\ token = [c \in Callers |-> NoToken]
    /\ iter = [c \in Callers |-> 0]
    /\ refs = [c \in Callers |-> << >>]
    /\ result = [c \in Callers |-> NoResult]
    /\ walk = [c \in Callers |-> [st |-> "none", refs |-> << >>, calls |-> 0]]
    /\ resolved = [t \in 1 .. Forged |-> 0]
    /\ used = {}
    /\ prev = NoOp
    /\ last = NoOp
    /\ opts = {}
    /\ made = NotMade
    /\ b2 = NoInstance
    /\ bucketType \in BucketTypes
    /\ link = [c \in Callers |-> NoLink]
    /\ lookups = [n |-> 0, first |-> "none", failed |-> FALSE]
    /\ closedCall = NoCall

\* New, then the LinkBase calls of the callers in S, Close and what is
\* called after it.
LifeNext(S) ==
    \/ \E o \in SUBSET Options, session, created \in BOOLEAN,
          found \in {"found", "notExist", "error"} : New(o, session, found, created)
    \/ \E c \in S : LinkBase(c)
    \/ \E c \in S : LinkBaseAccess(c)
    \/ \E c \in S : checkAccess(c)
    \/ \E c \in S, ok \in BOOLEAN : checkAccessAttrs(c, ok)
    \/ \E c \in S : LinkBaseReturn(c)
    \/ Close
    \/ \E op \in Unguarded : CallAfterClose(op)

\* One caller: its calls follow one another.
LifeSpec == LifeInit /\ [][LifeNext({"a"})]_vars

\* Several callers: their LinkBase calls run concurrently.
LifeConcSpec == LifeInit /\ [][LifeNext(Callers)]_vars

(* ------------------------------ claims ---------------------------------- *)

\* The listing of the whole bucket, in order.
WholeListing == [k \in 1 .. N(store) |-> ListRefsItem(store, k)]

\* The tokens randomToken has returned so far.
Issued == 1 .. (nextTok - 1)

\* The tokens that left the cache without a lookup finding them: evicted.
Evicted == {t \in Issued : t \notin Keys(cursors) /\ resolved[t] = 0}

\* Caller c starts a List call in this step.
CallStarts(c) ==
    /\ pc[c] = "idle"
    /\ <<pc[c], token[c], result[c], walk[c]>> # <<pc'[c], token'[c], result'[c], walk'[c]>>

\* C1: a caller that calls List("") and then List with each returned token
\* until a call returns the empty token (no call returning an error) has
\* received every object of the bucket exactly once, in listing order, and no
\* page holds more than maxResults items.
C1_WalkListsEachObjectOnce ==
    \A c \in Callers :
        /\ walk[c].st = "done" => walk[c].refs = WholeListing
        /\ Len(result[c].refs) <= maxResults
        /\ Len(refs[c]) <= maxResults

\* A walk of several pages over a full bucket has ended.
C1_Witness ==
    /\ walk["a"].st = "done"
    /\ walk["a"].calls >= 2
    /\ Len(walk["a"].refs) = MaxN

\* C2 as stated: the walk takes ceil(N/P) calls, 1 call for N = 0.
C2_CeilCalls ==
    \A c \in Callers :
        walk[c].st = "done" =>
            walk[c].calls = IF N(store) = 0 THEN 1
                            ELSE (N(store) + maxResults - 1) \div maxResults

\* C2 as amended: the walk takes floor(N/P) + 1 calls. A page of exactly P
\* items always comes with a token, so the end of the listing is only seen by
\* the call after it: N/P + 1 calls when P divides N, ceil(N/P) otherwise.
C2_FloorPlusOneCalls ==
    \A c \in Callers :
        walk[c].st = "done" => walk[c].calls = (N(store) \div maxResults) + 1

\* A walk has ended over a bucket whose size is a multiple of the page size.
C2_Witness ==
    /\ walk["a"].st = "done"
    /\ N(store) > 0
    /\ N(store) % maxResults = 0
    /\ walk["a"].calls = (N(store) \div maxResults) + 1

\* C3: in sequential operation, a List call made with a token a returned List
\* call was made with finds no cursor: it returns the unknown-token error at
\* once; such a token is not in the cache, and no token resolves to a cursor
\* more than once.
C3_TokenSingleUse ==
    /\ [](\A t \in used : t \notin Keys(cursors) /\ resolved[t] <= 1)
    /\ [][\A c \in Callers :
            (CallStarts(c) /\ token'[c] \in used) =>
                /\ pc'[c] = "idle"
                /\ result'[c].err = unknownToken
                /\ resolved' = resolved]_vars

\* A token that resolved to a cursor once was used again and was unknown.
C3_Witness ==
    /\ pc["a"] = "idle"
    /\ token["a"] \in Issued
    /\ resolved[token["a"]] = 1
    /\ token["a"] \in used
    /\ result["a"].err = unknownToken

\* C4: of the List calls running concurrently with one token only one
\* obtains the cursor; no cursor is held by two calls in flight, and none is
\* both in the cache and held by a call that getIter has returned to.
C4_OneCallObtainsTheCursor ==
    /\ \A t \in Issued : resolved[t] <= 1
    /\ \A c, d \in Callers :
          (c # d /\ pc[c] \in {"loop", "finish"} /\ pc[d] \in {"loop", "finish"})
              => iter[c] # iter[d]
    /\ \A c \in Callers :
          pc[c] \in {"loop", "finish"}
              => iter[c] \notin {cursors[k].value : k \in DOMAIN cursors}

\* C5: List with a token the cache does not hold fails with a NotExist
\* error, never an IO error, and returns no items and the empty token.
C5_UnknownTokenIsNotExist ==
    \A c \in Callers :
        (pc[c] = "idle" /\ result[c].err.Msg = "unknown token") =>
            /\ result[c].err.Kind = "NotExist"
            /\ result[c].refs = << >>
            /\ result[c].nextToken = NoToken

\* C6: the cursor cache never holds more than its capacity.
C6_CacheWithinCapacity == Len(cursors) <= maxEntries

\* The cache is full after an eviction.
C6_Witness == Len(cursors) = maxEntries /\ Evicted # {}

\* The token of the cache that was inserted first: tokens are inserted in
\* the order randomToken returns them.
Earliest(c) == CHOOSE t \in Keys(c) : \A u \in Keys(c) : t <= u

\* C7: a checkpoint into a full cache evicts exactly the entry inserted
\* earliest among those cached, and keeps all the others.
C7_EvictsEarliestInserted ==
    [][(Len(cursors) = maxEntries /\ nextTok' = nextTok + 1) =>
          Keys(cursors') = (Keys(cursors) \ {Earliest(cursors)}) \cup {nextTok}]_vars

\* C8: when no request fails, List("") on an empty bucket returns no items,
\* the empty token and no error, in one call; with an empty bucket nothing is
\* ever added to the cursor cache.
C8_EmptyBucket ==
    N(store) = 0 =>
        /\ cursors = << >>
        /\ \A c \in Callers :
              (pc[c] = "idle" /\ walk[c].st # "none" /\ faults = 0) =>
                  /\ result[c] = NoResult
                  /\ walk[c] = [st |-> "done", refs |-> << >>, calls |-> 1]

\* List("") has returned on an empty bucket.
C8_Witness ==
    /\ N(store) = 0
    /\ pc["a"] = "idle"
    /\ walk["a"].st = "done"
    /\ faults = 0

\* The last two operations are op1 and then Download, on one name, and the
\* request of the Download did not fail.
DownloadFollows(op1) ==
    /\ prev.op = op1 /\ prev.err = nil
    /\ last.op = "Download" /\ last.ref = prev.ref /\ ~last.fault

\* C9: a Download(r) right after a successful Put(r, b) returns exactly b,
\* whatever r held before, and a Download right after a successful
\* Download(r) returns the same bytes again (the request not failing).
C9_DownloadReturnsWhatWasPut ==
    (DownloadFollows("Put") \/ DownloadFollows("Download")) =>
        /\ last.err = nil
        /\ last.data = prev.data

\* Download has returned the bytes just put over an object of other content.
C9_Witness ==
    /\ DownloadFollows("Put")
    /\ prev.versions = 1
    /\ Len(store[last.ref]) = 2
    /\ store[last.ref][2] # prev.data
    /\ last.data = prev.data

\* C10 as stated: after a successful Delete(r) the next Download(r) fails
\* with NotExist, whatever Puts came before.
C10_DownloadAfterDeleteNotExist ==
    DownloadFollows("Delete") => last.err.Kind = "NotExist"

\* C10 as amended: after a successful Delete(r) the next Download(r) fails
\* with NotExist exactly when the Delete removed the only version of r; when
\* r held several versions the Download succeeds with the version before.
C10_DownloadAfterDeleteOfOnlyVersion ==
    DownloadFollows("Delete") =>
        /\ last.err.Kind = "NotExist" <=> prev.versions = 1
        /\ last.err.Kind # "NotExist" => last.err = nil /\ last.data = newest(store[last.ref])

\* Download has failed with NotExist after the Delete of a single version.
C10_Witness ==
    /\ DownloadFollows("Delete")
    /\ prev.versions = 1
    /\ last.err.Kind = "NotExist"

(* ------------------------ List: pages and errors ------------------------ *)

\* The List call of caller c returns in this step.
Returns(c) == pc[c] # "idle" /\ pc'[c] = "idle"

\* The call of c that returns in this step leaves its iterator in the cache
\* under the token it returns, a token that was not in the cache before.
Checkpoints(c) ==
    LET nt == result'[c].nextToken
    IN  /\ nt \notin Keys(cursors)
        /\ nt \in Keys(cursors')
        /\ cursors'[IndexOf(cursors', nt)].value = iter[c]

\* C14: List returns a non-empty next token exactly when it collected
\* maxResults items, the iteration reported no error and the iteration is
\* not yet exhausted, and then the cursor is in the cache under that new
\* token; otherwise the next token is empty and nothing is added.
C14_TokenIffFullPageAndNotExhausted ==
    [][\A c \in Callers : Returns(c) =>
          /\ result'[c].nextToken # NoToken <=>
                 /\ Len(result'[c].refs) = maxResults
                 /\ result'[c].err = nil
                 /\ iters[iter[c]].pos < N(store)
          /\ result'[c].nextToken # NoToken => Checkpoints(c)
          /\ result'[c].nextToken = NoToken => cursors' = cursors]_vars

\* C14, amended: the token is non-empty exactly when the call collected
\* maxResults items and the iteration reported no error, whether or not
\* objects are left.
C14_TokenIffFullPage ==
    [][\A c \in Callers : Returns(c) =>
          /\ result'[c].nextToken # NoToken <=>
                 /\ Len(result'[c].refs) = maxResults
                 /\ result'[c].err = nil
          /\ result'[c].nextToken # NoToken => Checkpoints(c)
          /\ result'[c].nextToken = NoToken => cursors' = cursors]_vars

\* A call has returned a token for an iteration that has nothing left.
C14_Witness ==
    /\ pc["a"] = "idle"
    /\ result["a"].nextToken \in Keys(cursors)
    /\ Len(result["a"].refs) = maxResults
    /\ iters[cursors[IndexOf(cursors, result["a"].nextToken)].value].pos = N(store)

\* C17: a List call whose obj.Attrs fails stops at that item and returns an
\* IO error with the empty token; its cursor is dropped, and the cache,
\* which the call changed only by removing its own token, gets no new entry.
C17_AttrsFailureDropsCursor ==
    [][\A c \in Callers :
          /\ pc[c] = "idle" /\ pc'[c] = "remove" => Keys(cursors') = Keys(cursors)
          /\ pc[c] = "remove" /\ pc'[c] = "loop" =>
                 Keys(cursors') = Keys(cursors) \ {token[c]}
          /\ pc[c] = "loop" /\ pc'[c] \in {"loop", "finish"} => cursors' = cursors
          /\ pc[c] = "loop" /\ pc'[c] = "idle" =>
                 /\ result'[c].refs = refs[c]
                 /\ result'[c].nextToken = NoToken
                 /\ result'[c].err.Kind = "IO"
                 /\ cursors' = cursors
                 /\ token[c] \notin Keys(cursors')
                 /\ iter[c] \notin DOMAIN iters']_vars

\* A call made with a token of the cache has failed at obj.Attrs.
C17_Witness ==
    /\ pc["a"] = "idle"
    /\ token["a"] # NoToken
    /\ resolved[token["a"]] = 1
    /\ result["a"].err = attrsFailed
    /\ token["a"] \notin Keys(cursors)

\* C18: the call that retries after an obj.Attrs failure with the last
\* token returned to the caller does not fail with the unknown-token error.
C18_RetryIsNotUnknownToken ==
    \A c \in Callers :
        walk[c].st = "retry" /\ pc[c] = "idle" => result[c].err # unknownToken

\* C18, amended: that retry fails with the unknown-token error, the token
\* having been removed when the broken call looked it up; a retry with the
\* empty token starts a new iteration.
C18_RetryIsUnknownToken ==
    /\ [](\A c \in Callers :
            walk[c].st = "retry" /\ pc[c] = "idle" => result[c].err = unknownToken)
    /\ [][\A c \in Callers :
            /\ pc[c] = "idle" /\ pc'[c] # "idle"
            /\ walk[c].st = "broken" /\ result[c].err = attrsFailed
            /\ token'[c] = NoToken
            => pc'[c] = "loop" /\ iters'[iter'[c]] = NewIterator]_vars

C18_Witness ==
    /\ walk["a"].st = "retry"
    /\ pc["a"] = "idle"
    /\ result["a"].err = unknownToken


\* The callers whose call in progress was made with a token and found it.
WithToken == {c \in Callers : pc[c] # "idle" /\ token[c] # NoToken}

\* C15: List calls running concurrently with different valid tokens do not
\* interfere: each works on the cursor of its own token, a cursor no call
\* made with another token is advancing.
C15_DifferentTokensDifferentCursors ==
    \A c, d \in WithToken : token[c] # token[d] => iter[c] # iter[d]

\* C19: with at most maxEntries walks in progress, each caller making its
\* calls one after another with the one token it holds and giving up none,
\* no token is evicted, no caller gets the unknown-token error, and every
\* walk comes to a call that returns the empty token.
C19_DisciplinedWalksFinish ==
    /\ [](Evicted = {})
    /\ [](\A c \in Callers : pc[c] = "idle" => result[c].err # unknownToken)
    /\ \A c \in Callers :
           walk[c].st = "open" ~>
               (pc[c] = "idle" /\ walk[c].st # "open" /\ result[c].nextToken = NoToken)

\* As many walks as the cache has room for, each with its token in the cache.
C19_Witness ==
    /\ Cardinality(Callers) >= maxEntries
    /\ Len(cursors) = maxEntries
    /\ \A c \in Callers : walk[c].st = "open" /\ pc[c] = "idle"
                          /\ result[c].nextToken \in Keys(cursors)

(* ---------------------- New, Close and LinkBase ------------------------- *)

\* A LinkBase call of c has returned and it was not refused for a closed
\* instance.
Returned(c) ==
    link[c].pc = "idle" /\ link[c].calls > 0 /\ link[c].err.Kind # "Transient"

\* C11: New called with any of the three required options missing fails
\* with an Invalid error, returns no instance and has made no request to
\* the service.
C11_MissingOptionIsInvalid ==
    made.called /\ opts # Options =>
        /\ made.err.Kind = "Invalid"
        /\ b2 = NoInstance
        /\ made.requests = 0

C11_Witness ==
    /\ made.called
    /\ opts = {accountID, appKey}
    /\ made.err = E("Invalid", bucketName)

\* C12: after Close every call (Put, Download, Delete, List, LinkBase)
\* fails with an error: none succeeds and none crashes the process.
C12_ClosedInstanceFailsCleanly ==
    closedCall.op # "none" => closedCall.outcome = "error"

\* C13: with one caller the bucket.Attrs lookup is made at most once, by
\* the first LinkBase call; that call and every later one return the URL
\* exactly when that lookup succeeded and reported a public bucket, and
\* ErrNotSupported otherwise.
C13_LookupOnceAndMemoized ==
    /\ lookups.n <= 1
    /\ (\A c \in Callers : link[c] = NoLink) => lookups.n = 0
    /\ \A c \in Callers : Returned(c) =>
           /\ lookups.n = 1
           /\ link[c].base = "url" <=> lookups.first = Public
           /\ link[c].base # "url" => link[c].err = ErrNotSupported

\* The second call on a public bucket whose lookup failed.
C13_Witness ==
    /\ Returned("a")
    /\ link["a"].calls = 2
    /\ bucketType = Public
    /\ lookups.first = "failed"
    /\ link["a"].err = ErrNotSupported

\* C16: concurrent LinkBase calls on a new instance whose bucket is public
\* and whose lookups succeed all return the URL; none returns
\* ErrNotSupported.
C16_ConcurrentLinkBaseAllPublic ==
    \A c \in Callers :
        bucketType = Public /\ ~lookups.failed /\ Returned(c) =>
            link[c].base = "url"

====
